---- MODULE Spec2Model ----
(***************************************************************************)
(* nomad-otel-metrics-scraper, src/main.rs.                                *)
(*                                                                         *)
(* Four activities share the state of main():                              *)
(*   - the status_loop task (poll loop): select! on the cancellation token *)
(*     and the interval sleep, then fetch, then update of the job metric   *)
(*     map under its mutex;                                                *)
(*   - the shutdown task: waits for ctrl_c, cancels the token, flushes and *)
(*     shuts down the meter provider;                                      *)
(*   - the registered callback (observer), invoked by the metrics runtime: *)
(*     locks the map and emits three observations per entry;               *)
(*   - main itself, which awaits status_loop and returns.                  *)
(***************************************************************************)
EXTENDS Integers, Sequences, FiniteSets, TLC

(***************************************************************************)
(* Bounds of the model.                                                    *)
(***************************************************************************)
\* largest number of entries the job list of one fetch returns
MaxJobs == 2
\* largest number of (group, status) pairs one fetch returns
MaxStatuses == 2

(***************************************************************************)
(* Inputs.                                                                 *)
(***************************************************************************)
\* task group names the orchestrator reports
Groups == {"web", "api"}

\* JobScaleStatus values the orchestrator reports for each group (placed and
\* running are deserialized but never read)
Reported(g) ==
  IF g = "web"
  THEN { [desired |-> 4,  healthy |-> 4, unhealthy |-> 0],
         [desired |-> 10, healthy |-> 7, unhealthy |-> 3] }
  ELSE { [desired |-> 1,  healthy |-> 2, unhealthy |-> 0],
         [desired |-> 0,  healthy |-> 0, unhealthy |-> 0] }

StatusPool == UNION { Reported(g) : g \in Groups }

\* --nomad-poll-interval: zero or positive
PollIntervals == {0, 1}

\* no entry under a key
Absent == [absent |-> TRUE]

\* a slot whose value has not been written yet: no field holds a count
UninitEntry ==
  [up |-> 0 - 1, down |-> 0 - 1, up_ratio |-> [num |-> 0 - 1, den |-> 1]]

(***************************************************************************)
(* Pure functions.                                                         *)
(***************************************************************************)
\* u32 / u32: integer division, truncating (desired # 0)
U32Div(a, b) == a \div b

\* u32 -> u64 (From<u32> for u64): lossless
U32ToU64(n) == n

\* u32 -> f64 (From<u32> for f64): the integer as an exact rational
U32ToF64(n) == [num |-> n, den |-> 1]

\* StatusCount { up, down, up_ratio } built from a JobScaleStatus
TransformStatus(status) ==
  [ up       |-> U32ToU64(status.healthy),
    down     |-> U32ToU64(status.unhealthy),
    up_ratio |-> U32ToF64(U32Div(status.healthy, status.desired)) ]

\* the division panics ("attempt to divide by zero") when desired = 0
TransformPanics(status) == status.desired = 0

\* branches of the select! that may run: every branch whose future is ready,
\* picked in random order (no `biased;`)
SelectBranches(c, t) ==
  { b \in {"cancel", "sleep"} : (b = "cancel" /\ c) \/ (b = "sleep" /\ t) }

\* the fields of a StatusCount in the order they are laid down in the entry
FieldOrder == <<"up", "down", "up_ratio">>

\* an insert that keeps the value of a key that is already there
\* (entry().or_insert())
InsertFieldIfAbsent(map, k, f, v) ==
  IF map[k] = Absent
  THEN [map EXCEPT ![k] = [UninitEntry EXCEPT ![f] = v[f]]]
  ELSE IF map[k][f] = UninitEntry[f]
       THEN [map EXCEPT ![k] = [map[k] EXCEPT ![f] = v[f]]]
       ELSE map

\* HashMap::insert, one field of the value at a time: the key is created when
\* it is missing, an existing value is overwritten
InsertField(map, k, f, v) ==
  LET old == IF map[k] = Absent
             THEN UninitEntry
             ELSE map[k]
  IN  [map EXCEPT ![k] = [old EXCEPT ![f] = v[f]]]

\* one (name, status) pair of a fetch result
Pairs == { p \in [name : Groups, status : StatusPool] :
             p.status \in Reported(p.name) }

\* task_groups of one JobScale in iteration order: a HashMap, so the names are
\* distinct and the order is arbitrary
TaskGroupSeqs ==
  {<<>>} \cup { <<p>> : p \in Pairs }
         \cup { <<pq[1], pq[2]>> :
                  pq \in { x \in Pairs \X Pairs : x[1].name # x[2].name } }

\* a join whose error is dropped (let _ = status_loop.await)
JoinResultIgnored(pc) == "ok"

\* JoinHandle result seen by main: a panicked task is a JoinError
JoinResult(pc) == IF pc = "panicked" THEN "err" ELSE "ok"

(***************************************************************************)
(* State.                                                                  *)
(***************************************************************************)
VARIABLES
  pollInterval,   \* args.nomad_poll_interval
  cancelled,      \* cancel_token
  loopPc,         \* status_loop: "head","select","fetchList","fetchScale",
                  \*              "update","done","panicked"
  timerElapsed,   \* the sleep future of this iteration is ready
  jobsLeft,       \* entries of the job list still to look up
  statuses,       \* statuses accumulated by get_statuses_for_jobs
  idx,            \* position of the update loop in statuses
  field,          \* fields of the current value already written (0..2)
  store,          \* job_metric_map: group -> StatusCount, or Absent
  lockHolder,     \* the mutex: "none", "poller", "observer"
  poisoned,       \* the mutex was held by a thread that panicked
  panicReason,    \* "none", "fetch", "divzero", "poison"
  shutPc,         \* shutdown task: "waiting","okBranch","errBranch","flush",
                  \*                "close","done"
  shutResult,     \* "none", "ok", "err"
  flushState,     \* force_flush: "none", "ok", "err"
  closeState,     \* shutdown(): "none", "ok", "err"
  mainPc,         \* "awaiting", "returned"
  mainResult,     \* "none", "ok", "err"
  obsPc,          \* callback: "idle", "iter"
  obsTodo,        \* entries the callback still has to visit
  emitted,        \* observations of the current tick: group -> sample
  tickFailed,     \* the last tick panicked on the poisoned mutex
  \* history variables
  lastRaw,        \* group -> status of the latest completed insert
  cycleBase,      \* the store when the current cycle's fetch started
  lostPartial,    \* the failed fetch had already received some groups
  cancelCtx,      \* where the loop was when cancel() was called
  fetchAfterCancel, \* a fetch was started with the token cancelled
  obsTorn         \* the callback read an entry in the middle of a write

vars == << pollInterval, cancelled, loopPc, timerElapsed, jobsLeft, statuses,
           idx, field, store, lockHolder, poisoned, panicReason, shutPc,
           shutResult, flushState, closeState, mainPc, mainResult, obsPc,
           obsTodo, emitted, tickFailed, lastRaw, cycleBase, lostPartial,
           cancelCtx, fetchAfterCancel, obsTorn >>

loopVars == << loopPc, timerElapsed, jobsLeft, statuses, idx, field >>
shutVars == << shutPc, shutResult, flushState, closeState >>
mainVars == << mainPc, mainResult >>
obsVars  == << obsPc, obsTodo, emitted, tickFailed, obsTorn >>
lockVars == << lockHolder, poisoned >>
histVars == << lastRaw, cycleBase, lostPartial >>

EmptyMap == [g \in Groups |-> Absent]

Init ==
  /\ pollInterval \in PollIntervals
  /\ cancelled = FALSE
  /\ loopPc = "head"
  /\ timerElapsed = FALSE
  /\ jobsLeft = 0
  /\ statuses = <<>>
  /\ idx = 1
  /\ field = 0
  /\ store = EmptyMap
  /\ lockHolder = "none"
  /\ poisoned = FALSE
  /\ panicReason = "none"
  /\ shutPc = "waiting"
  /\ shutResult = "none"
  /\ flushState = "none"
  /\ closeState = "none"
  /\ mainPc = "awaiting"
  /\ mainResult = "none"
  /\ obsPc = "idle"
  /\ obsTodo = {}
  /\ emitted = EmptyMap
  /\ tickFailed = FALSE
  /\ lastRaw = EmptyMap
  /\ cycleBase = EmptyMap
  /\ lostPartial = FALSE
  /\ cancelCtx = "none"
  /\ fetchAfterCancel = FALSE
  /\ obsTorn = FALSE

(***************************************************************************)
(* status_loop                                                             *)
(***************************************************************************)
\* loop head: the select! creates a fresh sleep; a zero interval is ready at
\* once
LoopHead ==
  /\ loopPc = "head"
  /\ loopPc' = "select"
  /\ timerElapsed' = (pollInterval = 0)
  /\ UNCHANGED << pollInterval, cancelled, jobsLeft, statuses, idx, field,
                  store, lockVars, panicReason, shutVars, mainVars, obsVars,
                  histVars, cancelCtx, fetchAfterCancel >>

\* the interval elapses while the loop waits in the select!
TimerFires ==
  /\ loopPc = "select"
  /\ ~timerElapsed
  /\ timerElapsed' = TRUE
  /\ UNCHANGED << pollInterval, cancelled, loopPc, jobsLeft, statuses, idx,
                  field, store, lockVars, panicReason, shutVars, mainVars,
                  obsVars, histVars, cancelCtx, fetchAfterCancel >>

\* select! runs the cancelled() branch: return
SelectCancel ==
  /\ loopPc = "select"
  /\ "cancel" \in SelectBranches(cancelled, timerElapsed)
  /\ loopPc' = "done"
  /\ UNCHANGED << pollInterval, cancelled, timerElapsed, jobsLeft, statuses,
                  idx, field, store, lockVars, panicReason, shutVars,
                  mainVars, obsVars, histVars, cancelCtx, fetchAfterCancel >>

\* select! runs the sleep branch: get_statuses_for_jobs is called
SelectSleep ==
  /\ loopPc = "select"
  /\ "sleep" \in SelectBranches(cancelled, timerElapsed)
  /\ loopPc' = "fetchList"
  /\ statuses' = <<>>
  /\ jobsLeft' = 0
  /\ cycleBase' = store
  /\ fetchAfterCancel' = (fetchAfterCancel \/ cancelled)
  /\ UNCHANGED << pollInterval, cancelled, timerElapsed, idx, field, store,
                  lockVars, panicReason, shutVars, mainVars, obsVars, lastRaw,
                  lostPartial, cancelCtx >>

\* GET v1/jobs succeeds with n entries
FetchListOk ==
  /\ loopPc = "fetchList"
  /\ \E n \in 0..MaxJobs : jobsLeft' = n
  /\ loopPc' = "fetchScale"
  /\ UNCHANGED << pollInterval, cancelled, timerElapsed, statuses, idx, field,
                  store, lockVars, panicReason, shutVars, mainVars, obsVars,
                  histVars, cancelCtx, fetchAfterCancel >>

\* GET v1/job/{name}/scale succeeds: its task groups are pushed
FetchScaleOk ==
  /\ loopPc = "fetchScale"
  /\ jobsLeft > 0
  /\ \E resp \in TaskGroupSeqs :
       /\ Len(statuses) + Len(resp) <= MaxStatuses
       /\ statuses' = statuses \o resp
  /\ jobsLeft' = jobsLeft - 1
  /\ UNCHANGED << pollInterval, cancelled, loopPc, timerElapsed, idx, field,
                  store, lockVars, panicReason, shutVars, mainVars, obsVars,
                  histVars, cancelCtx, fetchAfterCancel >>

\* a failing fetch that has already stored the first group it had received
FetchFailWritesPartial ==
  /\ loopPc \in {"fetchList", "fetchScale"}
  /\ loopPc = "fetchScale" => jobsLeft > 0
  /\ loopPc' = "panicked"
  /\ panicReason' = "fetch"
  /\ store' = IF Len(statuses) > 0 /\ statuses[1].status.desired # 0
              THEN [store EXCEPT ![statuses[1].name] =
                                   TransformStatus(statuses[1].status)]
              ELSE store
  /\ statuses' = <<>>
  /\ jobsLeft' = 0
  /\ lostPartial' = (Len(statuses) > 0)
  /\ UNCHANGED << pollInterval, cancelled, timerElapsed, idx, field,
                  lockVars, shutVars, mainVars, obsVars, lastRaw, cycleBase,
                  cancelCtx, fetchAfterCancel >>

\* a request fails or its body does not deserialize: `?` returns the error,
\* which drops the statuses collected so far, and expect() panics the task
FetchFail ==
  /\ loopPc \in {"fetchList", "fetchScale"}
  /\ loopPc = "fetchScale" => jobsLeft > 0
  /\ loopPc' = "panicked"
  /\ panicReason' = "fetch"
  /\ statuses' = <<>>
  /\ jobsLeft' = 0
  /\ lostPartial' = (Len(statuses) > 0)
  /\ UNCHANGED << pollInterval, cancelled, timerElapsed, idx, field, store,
                  lockVars, shutVars, mainVars, obsVars, lastRaw, cycleBase,
                  cancelCtx, fetchAfterCancel >>

\* an update that replaces the map: data.clear() before the inserts
LoopLockClears ==
  /\ loopPc = "fetchScale"
  /\ jobsLeft = 0
  /\ lockHolder = "none"
  /\ IF poisoned
     THEN /\ loopPc' = "panicked"
          /\ panicReason' = "poison"
          /\ UNCHANGED << lockHolder, idx, field, store, lastRaw >>
     ELSE /\ loopPc' = "update"
          /\ lockHolder' = "poller"
          /\ idx' = 1
          /\ field' = 0
          /\ store' = EmptyMap
          /\ lastRaw' = EmptyMap
          /\ UNCHANGED panicReason
  /\ UNCHANGED << pollInterval, cancelled, timerElapsed, jobsLeft, statuses,
                  poisoned, shutVars, mainVars, obsVars, cycleBase,
                  lostPartial, cancelCtx, fetchAfterCancel >>

\* Ok(statuses) is returned and the map is locked; lock().unwrap() panics on
\* a poisoned mutex
LoopLock ==
  /\ loopPc = "fetchScale"
  /\ jobsLeft = 0
  /\ lockHolder = "none"
  /\ IF poisoned
     THEN /\ loopPc' = "panicked"
          /\ panicReason' = "poison"
          /\ UNCHANGED << lockHolder, idx, field >>
     ELSE /\ loopPc' = "update"
          /\ lockHolder' = "poller"
          /\ idx' = 1
          /\ field' = 0
          /\ UNCHANGED panicReason
  /\ UNCHANGED << pollInterval, cancelled, timerElapsed, jobsLeft, statuses,
                  store, poisoned, shutVars, mainVars, obsVars, histVars,
                  cancelCtx, fetchAfterCancel >>

\* one step of the for loop: the StatusCount is computed (a zero desired
\* panics with the guard held, which poisons the mutex) and one more field of
\* it is moved into the map
UpdateStep ==
  /\ loopPc = "update"
  /\ idx <= Len(statuses)
  /\ LET p == statuses[idx] IN
     IF TransformPanics(p.status)
     THEN /\ loopPc' = "panicked"
          /\ panicReason' = "divzero"
          /\ poisoned' = TRUE
          /\ lockHolder' = "none"
          /\ UNCHANGED << store, idx, field, lastRaw >>
     ELSE /\ store' = InsertField(store, p.name, FieldOrder[field + 1],
                                  TransformStatus(p.status))
          /\ IF field = 2
             THEN /\ idx' = idx + 1
                  /\ field' = 0
                  /\ lastRaw' = [lastRaw EXCEPT ![p.name] = p.status]
             ELSE /\ field' = field + 1
                  /\ UNCHANGED << idx, lastRaw >>
          /\ UNCHANGED << loopPc, panicReason, poisoned, lockHolder >>
  /\ UNCHANGED << pollInterval, cancelled, timerElapsed, jobsLeft, statuses,
                  shutVars, mainVars, obsVars, cycleBase, lostPartial,
                  cancelCtx, fetchAfterCancel >>

\* end of the scope: the guard is dropped, statuses goes out of scope and the
\* loop goes round
UpdateDone ==
  /\ loopPc = "update"
  /\ idx > Len(statuses)
  /\ lockHolder' = "none"
  /\ loopPc' = "head"
  /\ statuses' = <<>>
  /\ idx' = 1
  /\ cycleBase' = store
  /\ UNCHANGED << pollInterval, cancelled, timerElapsed, jobsLeft, field,
                  store, poisoned, panicReason, shutVars, mainVars, obsVars,
                  lastRaw, lostPartial, cancelCtx, fetchAfterCancel >>

(***************************************************************************)
(* shutdown task                                                           *)
(***************************************************************************)
\* where the loop is when cancel() is called
CancelContext ==
  IF loopPc = "select" /\ ~timerElapsed THEN "sleeping"
  ELSE IF loopPc \in {"fetchList", "fetchScale", "update"} THEN "cycle"
  ELSE "other"

\* ctrl_c().await resolves Ok(())
SignalOk ==
  /\ shutPc = "waiting"
  /\ mainPc = "awaiting"
  /\ shutPc' = "okBranch"
  /\ UNCHANGED << pollInterval, cancelled, loopVars, store, lockVars,
                  panicReason, shutResult, flushState, closeState, mainVars,
                  obsVars, histVars, cancelCtx, fetchAfterCancel >>

\* ctrl_c().await resolves Err: the listener could not be registered
SignalErr ==
  /\ shutPc = "waiting"
  /\ mainPc = "awaiting"
  /\ shutPc' = "errBranch"
  /\ UNCHANGED << pollInterval, cancelled, loopVars, store, lockVars,
                  panicReason, shutResult, flushState, closeState, mainVars,
                  obsVars, histVars, cancelCtx, fetchAfterCancel >>

\* Ok branch: cancel_token.cancel()
OkCancel ==
  /\ shutPc = "okBranch"
  /\ cancelled' = TRUE
  /\ cancelCtx' = CancelContext
  /\ shutPc' = "flush"
  /\ UNCHANGED << pollInterval, loopVars, store, lockVars, panicReason,
                  shutResult, flushState, closeState, mainVars, obsVars,
                  histVars, fetchAfterCancel >>

\* an Err branch that only logs and returns
ErrNoCancel ==
  /\ shutPc = "errBranch"
  /\ shutPc' = "done"
  /\ shutResult' = "ok"
  /\ UNCHANGED << pollInterval, cancelled, loopVars, store, lockVars,
                  panicReason, flushState, closeState, mainVars, obsVars,
                  histVars, cancelCtx, fetchAfterCancel >>

\* Err branch: cancel_token.cancel(); Ok(())
ErrCancel ==
  /\ shutPc = "errBranch"
  /\ cancelled' = TRUE
  /\ cancelCtx' = CancelContext
  /\ shutPc' = "done"
  /\ shutResult' = "ok"
  /\ UNCHANGED << pollInterval, loopVars, store, lockVars, panicReason,
                  flushState, closeState, mainVars, obsVars, histVars,
                  fetchAfterCancel >>

\* force_flush() without the `?`: shutdown() is run whatever the flush returned
FlushIgnoresError ==
  /\ shutPc = "flush"
  /\ \E r \in {"ok", "err"} : flushState' = r
  /\ shutPc' = "close"
  /\ UNCHANGED << pollInterval, cancelled, loopVars, store, lockVars,
                  panicReason, shutResult, closeState, mainVars, obsVars,
                  histVars, cancelCtx, fetchAfterCancel >>

\* closable_meter_provider.force_flush()?
Flush ==
  /\ shutPc = "flush"
  /\ \E r \in {"ok", "err"} :
       /\ flushState' = r
       /\ IF r = "ok"
          THEN shutPc' = "close" /\ UNCHANGED shutResult
          ELSE shutPc' = "done" /\ shutResult' = "err"
  /\ UNCHANGED << pollInterval, cancelled, loopVars, store, lockVars,
                  panicReason, closeState, mainVars, obsVars, histVars,
                  cancelCtx, fetchAfterCancel >>

\* closable_meter_provider.shutdown()?
Close ==
  /\ shutPc = "close"
  /\ \E r \in {"ok", "err"} :
       /\ closeState' = r
       /\ shutResult' = r
  /\ shutPc' = "done"
  /\ UNCHANGED << pollInterval, cancelled, loopVars, store, lockVars,
                  panicReason, flushState, mainVars, obsVars, histVars,
                  cancelCtx, fetchAfterCancel >>

(***************************************************************************)
(* main                                                                    *)
(***************************************************************************)
\* status_loop.await?; Ok(())
MainJoin ==
  /\ mainPc = "awaiting"
  /\ loopPc \in {"done", "panicked"}
  /\ mainPc' = "returned"
  /\ mainResult' = JoinResult(loopPc)
  /\ UNCHANGED << pollInterval, cancelled, loopVars, store, lockVars,
                  panicReason, shutVars, obsVars, histVars, cancelCtx,
                  fetchAfterCancel >>

(***************************************************************************)
(* registered callback                                                     *)
(***************************************************************************)
\* the entry of group n is in the middle of an insert
Torn(n) ==
  /\ loopPc = "update"
  /\ field > 0
  /\ idx <= Len(statuses)
  /\ statuses[idx].name = n

\* the runtime has not been torn down and the provider is not shut down
RuntimeCollects == mainPc = "awaiting" /\ closeState = "none"

\* a callback that walks the map without waiting for the mutex
ObserverLockFree ==
  /\ obsPc = "idle"
  /\ RuntimeCollects
  /\ obsPc' = "iter"
  /\ obsTodo' = { g \in Groups : store[g] # Absent }
  /\ emitted' = EmptyMap
  /\ tickFailed' = FALSE
  /\ UNCHANGED << pollInterval, cancelled, loopVars, store, lockVars,
                  panicReason, shutVars, mainVars, histVars, cancelCtx,
                  fetchAfterCancel, obsTorn >>

\* a callback that recovers the guard of a poisoned mutex
\* (lock().unwrap_or_else(|e| e.into_inner()))
ObserverLockIgnoresPoison ==
  /\ obsPc = "idle"
  /\ RuntimeCollects
  /\ lockHolder = "none"
  /\ obsPc' = "iter"
  /\ lockHolder' = "observer"
  /\ obsTodo' = { g \in Groups : store[g] # Absent }
  /\ emitted' = EmptyMap
  /\ tickFailed' = FALSE
  /\ UNCHANGED << pollInterval, cancelled, loopVars, store, poisoned,
                  panicReason, shutVars, mainVars, histVars, cancelCtx,
                  fetchAfterCancel, obsTorn >>

\* a collection tick: job_metric_map.lock().unwrap()
ObserverLock ==
  /\ obsPc = "idle"
  /\ RuntimeCollects
  /\ lockHolder = "none"
  /\ IF poisoned
     THEN /\ tickFailed' = TRUE
          /\ emitted' = EmptyMap
          /\ UNCHANGED << obsPc, obsTodo, lockHolder >>
     ELSE /\ obsPc' = "iter"
          /\ lockHolder' = "observer"
          /\ obsTodo' = { g \in Groups : store[g] # Absent }
          /\ emitted' = EmptyMap
          /\ tickFailed' = FALSE
  /\ UNCHANGED << pollInterval, cancelled, loopVars, store, poisoned,
                  panicReason, shutVars, mainVars, histVars, cancelCtx,
                  fetchAfterCancel, obsTorn >>

\* a callback that takes each entry out of the map as it reports it
ObserveEntryDrains ==
  /\ obsPc = "iter"
  /\ \E n \in obsTodo :
       /\ emitted' = [emitted EXCEPT ![n] = store[n]]
       /\ store' = [store EXCEPT ![n] = Absent]
       /\ obsTodo' = obsTodo \ {n}
       /\ obsTorn' = (obsTorn \/ Torn(n))
  /\ UNCHANGED << pollInterval, cancelled, loopVars, lockVars, panicReason,
                  shutVars, mainVars, obsPc, tickFailed, histVars, cancelCtx,
                  fetchAfterCancel >>

\* one iteration of data.iter(): the three observations of one entry
ObserveEntry ==
  /\ obsPc = "iter"
  /\ \E n \in obsTodo :
       /\ emitted' = [emitted EXCEPT ![n] = store[n]]
       /\ obsTodo' = obsTodo \ {n}
       /\ obsTorn' = (obsTorn \/ Torn(n))
  /\ UNCHANGED << pollInterval, cancelled, loopVars, store, lockVars,
                  panicReason, shutVars, mainVars, obsPc, tickFailed,
                  histVars, cancelCtx, fetchAfterCancel >>

\* the closure returns: the guard is dropped
ObserverUnlock ==
  /\ obsPc = "iter"
  /\ obsTodo = {}
  /\ obsPc' = "idle"
  /\ lockHolder' = IF lockHolder = "observer" THEN "none" ELSE lockHolder
  /\ emitted' = EmptyMap
  /\ UNCHANGED << pollInterval, cancelled, loopVars, store, poisoned,
                  panicReason, shutVars, mainVars, obsTodo, tickFailed,
                  histVars, cancelCtx, fetchAfterCancel, obsTorn >>

(***************************************************************************)
(* Specifications.                                                         *)
(***************************************************************************)
Next ==
  \/ LoopHead
  \/ TimerFires
  \/ SelectCancel
  \/ SelectSleep
  \/ FetchListOk
  \/ FetchScaleOk
  \/ FetchFail
  \/ LoopLock
  \/ UpdateStep
  \/ UpdateDone
  \/ SignalOk
  \/ SignalErr
  \/ OkCancel
  \/ ErrCancel
  \/ Flush
  \/ Close
  \/ MainJoin
  \/ ObserverLock
  \/ ObserveEntry
  \/ ObserverUnlock

Spec == Init /\ [][Next]_vars

\* scheduling: every task that can run is eventually polled, a request in
\* flight completes, and the random branch order of select! does not pass
\* over a ready cancelled() branch for ever; the mutex is eventually granted
FairSpec ==
  /\ Spec
  /\ WF_vars(LoopHead)
  /\ WF_vars(TimerFires)
  /\ SF_vars(SelectCancel)
  /\ WF_vars(FetchListOk \/ FetchScaleOk \/ FetchFail)
  /\ SF_vars(LoopLock)
  /\ WF_vars(UpdateStep)
  /\ WF_vars(UpdateDone)
  /\ WF_vars(OkCancel)
  /\ WF_vars(ErrCancel)
  /\ WF_vars(Flush)
  /\ WF_vars(Close)
  /\ WF_vars(MainJoin)
  /\ WF_vars(ObserveEntry)
  /\ WF_vars(ObserverUnlock)

\* the same scheduling with the cancelled() branch of the select! under weak
\* fairness only
WeakFairSpec ==
  /\ Spec
  /\ WF_vars(LoopHead)
  /\ WF_vars(TimerFires)
  /\ WF_vars(SelectCancel)
  /\ WF_vars(FetchListOk \/ FetchScaleOk \/ FetchFail)
  /\ SF_vars(LoopLock)
  /\ WF_vars(UpdateStep)
  /\ WF_vars(UpdateDone)
  /\ WF_vars(OkCancel)
  /\ WF_vars(ErrCancel)
  /\ WF_vars(Flush)
  /\ WF_vars(Close)
  /\ WF_vars(MainJoin)
  /\ WF_vars(ObserveEntry)
  /\ WF_vars(ObserverUnlock)

(***************************************************************************)
(* Properties.                                                             *)
(***************************************************************************)
\* the status_loop task has ended
LoopEnded == loopPc \in {"done", "panicked"}

\* the interrupt was received: the shutdown task took the Ok branch
Interrupted == shutPc \in {"okBranch", "flush", "close"} \/ flushState # "none"

\* C1: when cancel() is called while the loop waits in the select! with the
\* sleep still pending, no fetch is started afterwards.
C1_NoFetchAfterCancelWhileSleeping ==
  cancelCtx = "sleeping" => ~fetchAfterCancel

\* C2: a select! evaluated with the token already cancelled leaves the wait
\* only by returning from the loop, also when the sleep is ready too.
C2_CancelHasPriority ==
  [][(loopPc = "select" /\ cancelled /\ loopPc' # loopPc) => loopPc' = "done"]_vars

\* C3: once the interrupt was received, main has not returned unless
\* force_flush() and shutdown() have both been run to completion.
C3_NoExitBeforeFlushAndClose ==
  (Interrupted /\ mainPc = "returned")
    => (flushState # "none" /\ closeState # "none")

\* C4: the shutdown task calls force_flush() only with the token cancelled,
\* and calls shutdown() only after force_flush() returned Ok.
C4_ShutdownOrder ==
  [][ /\ (flushState' # flushState) => cancelled
      /\ (closeState' # closeState) => flushState = "ok" ]_vars

\* C4 witness: cancel, flush and close have all been run
C4_Witness == cancelled /\ flushState = "ok" /\ closeState = "ok"

\* C5: when ctrl_c() returns Err the token is cancelled all the same and the
\* status_loop task ends.
C5_ErrBranchStopsLoop ==
  (shutPc = "errBranch") ~> (cancelled /\ LoopEnded)

\* C5 witness: the Err branch was taken and the loop returned on the token
C5_Witness ==
  /\ shutPc = "done"
  /\ flushState = "none"
  /\ cancelled
  /\ loopPc = "done"

\* index of the last pair of seq whose name is n (0 when there is none)
LastIndex(seq, n) ==
  LET is == { i \in 1..Len(seq) : seq[i].name = n }
  IN  IF is = {} THEN 0 ELSE CHOOSE i \in is : \A j \in is : j <= i

\* the sample the latest completed insert under n was given
LatestSample(n) ==
  IF lastRaw[n] = Absent THEN Absent ELSE TransformStatus(lastRaw[n])

\* the update loop has gone through the whole fetch result
CycleWritten == loopPc = "update" /\ idx > Len(statuses)

\* C6: last write wins per key: whenever no insert is in progress on a key,
\* the map holds under it the sample of the latest insert for that key and
\* no entry for a key never inserted; at the end of a cycle every name of the
\* fetch result holds the sample of its last pair in the result.
C6_LastWriteWins ==
  /\ \A n \in Groups : ~Torn(n) => store[n] = LatestSample(n)
  /\ CycleWritten =>
       \A n \in Groups :
         LastIndex(statuses, n) # 0 =>
           store[n] = TransformStatus(statuses[LastIndex(statuses, n)].status)

\* C6 witness: a cycle whose result names one group twice with different
\* statuses has been written
C6_Witness ==
  /\ CycleWritten
  /\ Len(statuses) = 2
  /\ statuses[1].name = statuses[2].name
  /\ statuses[1].status # statuses[2].status

\* samples a single insert can have stored under n
WholeSamples(n) ==
  { TransformStatus(st) : st \in { x \in Reported(n) : ~TransformPanics(x) } }

\* C7: every sample the callback reads is whole: it never reads an entry in
\* the middle of an insert, and the three values it emits for a group are
\* those of one StatusCount.
C7_NoTornRead ==
  /\ ~obsTorn
  /\ \A n \in Groups : emitted[n] # Absent => emitted[n] \in WholeSamples(n)

\* C7 witness: the callback has read a sample while the poll loop, its fetch
\* done, waits for the mutex
C7_Witness ==
  /\ obsPc = "iter"
  /\ \E n \in Groups : emitted[n] # Absent
  /\ loopPc = "fetchScale"
  /\ jobsLeft = 0
  /\ Len(statuses) > 0

\* C8: a cycle whose fetch fails leaves the map as it was when the fetch
\* started.
C8_FailedFetchWritesNothing ==
  (loopPc \in {"fetchList", "fetchScale"} \/ panicReason = "fetch")
     => store = cycleBase

\* C8 witness: in a later cycle a scale request failed after another one had
\* returned its groups
C8_Witness ==
  /\ panicReason = "fetch"
  /\ lostPartial
  /\ store # EmptyMap

\* C9: after a failed fetch the loop never runs again, and main returns the
\* error.
C9_FetchFailureIsFatal ==
  /\ [][panicReason = "fetch" => loopPc' = "panicked"]_vars
  /\ [](panicReason = "fetch" /\ mainPc = "returned" => mainResult = "err")
  /\ (panicReason = "fetch") ~> (mainPc = "returned" /\ mainResult = "err")

\* C9 witness: main returned after a fetch failure of a later cycle
C9_Witness ==
  /\ panicReason = "fetch"
  /\ mainPc = "returned"
  /\ store # EmptyMap

\* C10: a stored sample has up = Healthy, down = Unhealthy and
\* up_ratio = Healthy / Desired exactly, for every status with Desired > 0.
C10_TrueRatio ==
  \A n \in Groups :
    (lastRaw[n] # Absent /\ ~Torn(n) /\ lastRaw[n].desired > 0) =>
      /\ store[n].up = lastRaw[n].healthy
      /\ store[n].down = lastRaw[n].unhealthy
      /\ store[n].up_ratio.num * lastRaw[n].desired
           = lastRaw[n].healthy * store[n].up_ratio.den

\* the update loop is about to transform the pair at idx
AtPair == loopPc = "update" /\ idx <= Len(statuses)

\* C11: a status with Desired = 0 never crashes the poll loop: the step of
\* the update loop that meets it does not end the task.
C11_ZeroDesiredNeverCrashes ==
  [][(AtPair /\ statuses[idx].status.desired = 0) => loopPc' # "panicked"]_vars

\* the poll loop is inside get_statuses_for_jobs
Fetching == loopPc = "fetchList" \/ (loopPc = "fetchScale" /\ jobsLeft > 0)

\* the callback is inside its for loop, calling observe_u64 / observe_f64
Emitting == obsPc = "iter" /\ obsTodo # {}

\* C12: the poll loop does not hold the mutex while its fetch is in progress,
\* and the callback does not hold it while it is emitting observations.
C12_LockFreeDuringIO ==
  /\ Fetching => lockHolder # "poller"
  /\ Emitting => lockHolder # "observer"

\* the update loop stands between two inserts of one cycle
BetweenUpserts ==
  loopPc = "update" /\ field = 0 /\ 1 < idx /\ idx <= Len(statuses)

\* C13: the poll loop takes the mutex for one insert at a time: between two
\* inserts of the same cycle it does not hold it, so that a collection tick
\* can run there.
C13_LockPerUpsert ==
  BetweenUpserts => lockHolder # "poller"

\* a collection tick has run to its end: the for loop is over, or the tick
\* panicked on lock().unwrap()
TickOver == (obsPc = "iter" /\ obsTodo = {}) \/ tickFailed

\* C14: every collection tick emits, for each group in the map, the stored
\* up, down and up_ratio under the group's name, and nothing for other names.
C14_TickEmitsStore ==
  TickOver => emitted = store

\* C15: entries are never deleted: a step keeps every key of the map, changes
\* only the entry of the pair it is inserting, and a group that is not in a
\* cycle's fetch result has after the cycle the sample it had before.
C15_NeverDeleted ==
  /\ [][\A n \in Groups :
          store[n] # Absent =>
            /\ store'[n] # Absent
            /\ ~(AtPair /\ statuses[idx].name = n) => store'[n] = store[n]]_vars
  /\ [](CycleWritten =>
          \A n \in Groups : LastIndex(statuses, n) = 0 => store[n] = cycleBase[n])

\* C15 witness: a cycle that does not report a group of an earlier cycle has
\* been written and the group is still there
C15_Witness ==
  /\ CycleWritten
  /\ Len(statuses) > 0
  /\ \E n \in Groups :
       /\ LastIndex(statuses, n) = 0
       /\ cycleBase[n] # Absent
       /\ store[n] = cycleBase[n]

\* C16: once the token is cancelled the loop eventually returns (unless the
\* fetch in flight fails, which is fatal), it never runs again after that,
\* and main's await on it finishes.
C16_CancelledLoopExits ==
  /\ cancelled ~> (loopPc = "done" \/ panicReason = "fetch")
  /\ [][loopPc = "done" => loopPc' = "done"]_vars
  /\ cancelled ~> (mainPc = "returned")

\* C17: every sample in the map has its up_ratio within [0, 1].
C17_RatioInUnitInterval ==
  \A n \in Groups :
    (store[n] # Absent /\ ~Torn(n)) =>
      /\ 0 <= store[n].up_ratio.num
      /\ store[n].up_ratio.num <= store[n].up_ratio.den

\* C18: the poll loop is the only writer: the map changes only in a step of
\* the update loop made with the mutex held; no step of the callback or of
\* the shutdown task changes it.
C18_PollerSoleWriter ==
  [][store' # store => (AtPair /\ lockHolder = "poller" /\ loopPc' # "panicked")]_vars

\* C18 witness: a tick has read the whole non-empty map after the shutdown
\* task cancelled and flushed
C18_Witness ==
  /\ flushState = "ok"
  /\ obsPc = "iter"
  /\ obsTodo = {}
  /\ store # EmptyMap
  /\ emitted = store

\* the poll loop is inside a cycle
InCycle == loopPc \in {"fetchList", "fetchScale", "update"}

\* C19: a cancellation during a cycle does not end that cycle, the loop
\* returning only from its next wait, and no fetch is started after it.
C19_CancelDuringCycle ==
  /\ [][(cancelled /\ InCycle) => loopPc' # "done"]_vars
  /\ [](cancelCtx = "cycle" => ~fetchAfterCancel)

\* what the map holds under n when the update loop stands at idx: the sample
\* of the last pair named n before idx, else what the cycle started from
PrefixSample(n) ==
  LET j == LastIndex(SubSeq(statuses, 1, idx - 1), n)
  IN  IF j = 0 THEN cycleBase[n] ELSE TransformStatus(statuses[j].status)

\* C20: after a panic on Desired = 0 inside the update loop the pairs before
\* it are written and the ones after it are not, the mutex is poisoned, and
\* no collection tick gets the guard or emits anything.
C20_PanicInCriticalSection ==
  panicReason = "divzero" =>
    /\ poisoned
    /\ \A n \in Groups : store[n] = PrefixSample(n)
    /\ obsPc = "idle"
    /\ emitted = EmptyMap

\* C20 witness: the second pair of a cycle panicked after the first was
\* written, and a later tick failed
C20_Witness ==
  /\ panicReason = "divzero"
  /\ idx = 2
  /\ store[statuses[1].name] # cycleBase[statuses[1].name]
  /\ tickFailed

====
